---- MODULE Spec2Model ----
(***************************************************************************)
(* Model of clean_data.py: enhanced_clean(df, feature_summary,             *)
(* missing_breakpoint, median_imputer) and its nested helpers fill_missing,*)
(* parse_missing_codes and data_mapper.                                    *)
(*                                                                         *)
(* A DataFrame is [cols |-> sequence of column labels,                     *)
(*                 rows |-> sequence of [id |-> index label,               *)
(*                                       cells |-> [label -> value]]].     *)
(* A Python str is a sequence of one-character strings.                    *)
(***************************************************************************)
EXTENDS Integers, Sequences, FiniteSets, TLC

VARIABLES
    pc,                 \* position in enhanced_clean
    df,                 \* the DataFrame being cleaned
    df0,                \* the DataFrame the caller passed in (never written)
    feature_summary,    \* rows [attribute, missing_or_unknown]
    missing_codes,      \* fill_missing's typecast copy of feature_summary
    once,               \* result of the first fill_missing application
    new_names,          \* content of col_renaming.csv
    missing_breakpoint, \* int argument
    median_imputer      \* statistics_ of the fitted SimpleImputer

vars == <<pc, df, df0, feature_summary, missing_codes, once, new_names,
          missing_breakpoint, median_imputer>>

(***************************************************************************)
(* Values held by cells and by parsed missing codes.                       *)
(* A number is m * 10^(-e) with trailing zeros stripped, so that the int   *)
(* -1 and the float -1.0 have the same (m, e) and differ only in the tag.  *)
(***************************************************************************)
PyInt(n) == [t |-> "int", m |-> n, e |-> 0, s |-> <<>>]
PyStr(x) == [t |-> "str", m |-> 0, e |-> 0, s |-> x]
NaN == [t |-> "nan", m |-> 0, e |-> 0, s |-> <<>>]

RECURSIVE Normalize(_, _)
Normalize(m, e) ==
    IF e > 0 /\ m % 10 = 0 THEN Normalize(m \div 10, e - 1) ELSE <<m, e>>

PyFloat(m, e) ==
    LET n == Normalize(m, e) IN [t |-> "float", m |-> n[1], e |-> n[2], s |-> <<>>]

isnull(v) == v.t = "nan"

IsNumber(v) == v.t \in {"int", "float"}

\* Python's == between two cell values: numbers compare by value whatever
\* their type, strings compare with strings only, NaN equals nothing.
PyEq(a, b) ==
    \/ IsNumber(a) /\ IsNumber(b) /\ a.m = b.m /\ a.e = b.e
    \/ a.t = "str" /\ b.t = "str" /\ a.s = b.s

(***************************************************************************)
(* Python's int(str) and float(str) on the characters of the model.        *)
(***************************************************************************)
DigitChars == {"0", "1", "2", "3", "4", "5", "6", "7", "8", "9"}

DigitVal(c) ==
    CASE c = "0" -> 0 [] c = "1" -> 1 [] c = "2" -> 2 [] c = "3" -> 3
      [] c = "4" -> 4 [] c = "5" -> 5 [] c = "6" -> 6 [] c = "7" -> 7
      [] c = "8" -> 8 [] c = "9" -> 9

HasSign(e) == Len(e) > 0 /\ e[1] \in {"-", "+"}

Unsigned(e) == IF HasSign(e) THEN Tail(e) ELSE e

Signed(e, n) == IF HasSign(e) /\ e[1] = "-" THEN 0 - n ELSE n

RECURSIVE DigitsValue(_)
DigitsValue(ds) ==
    IF ds = <<>> THEN 0
    ELSE 10 * DigitsValue(SubSeq(ds, 1, Len(ds) - 1)) + DigitVal(ds[Len(ds)])

\* int(e) succeeds: an optional sign and one or more digits.
IsIntLiteral(e) ==
    LET u == Unsigned(e) IN
    Len(u) > 0 /\ \A i \in 1..Len(u) : u[i] \in DigitChars

IntOf(e) == Signed(e, DigitsValue(Unsigned(e)))

\* float(e) succeeds: an optional sign, digits with at most one point and
\* at least one digit (exponents, inf and nan need letters the model's
\* alphabet does not hold).
IsFloatLiteral(e) ==
    LET u == Unsigned(e) IN
    /\ \A i \in 1..Len(u) : u[i] \in DigitChars \cup {"."}
    /\ Cardinality({i \in 1..Len(u) : u[i] = "."}) <= 1
    /\ \E i \in 1..Len(u) : u[i] \in DigitChars

FloatOf(e) ==
    LET u == Unsigned(e)
        ds == SelectSeq(u, LAMBDA c : c \in DigitChars)
        p == IF \E i \in 1..Len(u) : u[i] = "."
             THEN CHOOSE i \in 1..Len(u) : u[i] = "."
             ELSE Len(u) + 1
        frac == Len(u) + 1 - p - (IF p <= Len(u) THEN 1 ELSE 0)
    IN PyFloat(Signed(e, DigitsValue(ds)), frac)

(***************************************************************************)
(* feature_summary['missing_or_unknown'].str[1:-1].str.split(',')          *)
(***************************************************************************)
\* s[1:-1]
StripEnds(s) == IF Len(s) <= 2 THEN <<>> ELSE SubSeq(s, 2, Len(s) - 1)

\* s.split(','): always at least one token, '' for an empty field.
RECURSIVE Split(_)
Split(s) ==
    IF \A i \in 1..Len(s) : s[i] # ","
    THEN <<s>>
    ELSE LET p == CHOOSE i \in 1..Len(s) :
                      s[i] = "," /\ \A j \in 1..(i - 1) : s[j] # ","
         IN <<SubSeq(s, 1, p - 1)>> \o Split(SubSeq(s, p + 1, Len(s)))

split_codes(fs) ==
    [i \in DOMAIN fs |->
        [fs[i] EXCEPT !.missing_or_unknown = Split(StripEnds(@))]]

(***************************************************************************)
(* parse_missing_codes: [k |-> "nan"] is np.nan, [k |-> "list", l |-> ..]  *)
(* a list of typecast codes, [k |-> "ValueError"] the exception float(e)   *)
(* raises out of the except branch.                                        *)
(***************************************************************************)
HasX(e) == \E i \in 1..Len(e) : e[i] = "X"

ParseNaN == [k |-> "nan", l |-> <<>>]
ParseList(l) == [k |-> "list", l |-> l]
ParseError == [k |-> "ValueError", l |-> <<>>]

parse_missing_codes(code_list) ==
    IF \A i \in 1..Len(code_list) : code_list[i] # <<>>
    THEN IF \A i \in 1..Len(code_list) : IsIntLiteral(code_list[i])
         THEN ParseList([i \in 1..Len(code_list) |-> PyInt(IntOf(code_list[i]))])
         ELSE IF \E i \in 1..Len(code_list) :
                    ~HasX(code_list[i]) /\ ~IsFloatLiteral(code_list[i])
              THEN ParseError
              ELSE ParseList([i \in 1..Len(code_list) |->
                       IF ~HasX(code_list[i])
                       THEN FloatOf(code_list[i]) ELSE PyStr(code_list[i])])
    ELSE ParseNaN

(***************************************************************************)
(* DataFrames                                                              *)
(***************************************************************************)
\* A column label: a plain column, or the dummy column {n}__{level}.
Col(n) == [n |-> n, lv |-> <<>>]
DummyCol(n, level) == [n |-> n, lv |-> <<level>>]

ColSet(data) == {data.cols[i] : i \in DOMAIN data.cols}

DataFrame(cols, cellrows) ==
    [cols |-> cols,
     rows |-> [i \in DOMAIN cellrows |-> [id |-> i, cells |-> cellrows[i]]]]

\* Every table of 0..n rows over the columns, each row drawn from rowset.
Tables(cols, rowset, n) ==
    UNION {{DataFrame(cols, f) : f \in [1..k -> rowset]} : k \in 0..n}

(***************************************************************************)
(* fill_missing(df, missing_codes_mapping), inplace=False as line 118      *)
(* calls it: data and missing_codes are deep copies.                       *)
(***************************************************************************)
\* missing_codes.loc[:, 'missing_or_unknown'].apply(parse_missing_codes)
typecast(mapping) ==
    [i \in DOMAIN mapping |->
        [mapping[i] EXCEPT !.missing_or_unknown = parse_missing_codes(@)]]

raises(codes) ==
    \E i \in DOMAIN codes : codes[i].missing_or_unknown.k = "ValueError"

\* The cell of column c after data.replace(to_replace=code_map, value=np.nan):
\* a column the code map does not name, or names with np.nan, is left alone.
replace_cell(codes, c, v) ==
    IF \E i \in DOMAIN codes :
          /\ codes[i].attribute = c.n
          /\ c.lv = <<>>
          /\ codes[i].missing_or_unknown.k = "list"
          /\ \E j \in DOMAIN codes[i].missing_or_unknown.l :
                PyEq(v, codes[i].missing_or_unknown.l[j])
    THEN NaN ELSE v

\* a replace that removes the rows holding a code instead of marking the cells
replace_dropping_rows(data, codes) ==
    [data EXCEPT !.rows = SelectSeq(data.rows, LAMBDA row :
        \A c \in DOMAIN row.cells : replace_cell(codes, c, row.cells[c]) = row.cells[c])]

replace(data, codes) ==
    [data EXCEPT !.rows = [i \in DOMAIN data.rows |->
        [data.rows[i] EXCEPT !.cells =
            [c \in DOMAIN data.rows[i].cells |->
                replace_cell(codes, c, data.rows[i].cells[c])]]]]

fill_missing(data, mapping) == replace(data, typecast(mapping))

(***************************************************************************)
(* Steps of enhanced_clean: the Missing-Code Normalizer                    *)
(***************************************************************************)
\* lines 37-38: feature_summary is overwritten with the token lists
SplitCodes ==
    /\ pc = "split_codes"
    /\ feature_summary' = split_codes(feature_summary)
    /\ pc' = "fill_missing"
    /\ UNCHANGED <<df, df0, missing_codes, once, new_names,
                   missing_breakpoint, median_imputer>>

\* line 118: df = fill_missing(df, feature_summary)
FillMissing ==
    /\ pc = "fill_missing"
    /\ missing_codes' = typecast(feature_summary)
    /\ IF raises(typecast(feature_summary))
       THEN pc' = "ValueError" /\ df' = df
       ELSE pc' = "drop_columns" /\ df' = fill_missing(df, feature_summary)
    /\ UNCHANGED <<df0, feature_summary, once, new_names,
                   missing_breakpoint, median_imputer>>

\* fill_missing applied to its own result with the same code table
FillAgain ==
    /\ pc = "drop_columns"
    /\ once' = df
    /\ df' = fill_missing(df, feature_summary)
    /\ pc' = "filled_twice"
    /\ UNCHANGED <<df0, feature_summary, missing_codes, new_names,
                   missing_breakpoint, median_imputer>>

(***************************************************************************)
(* Inputs of the Missing-Code Normalizer                                   *)
(***************************************************************************)
MaxRawLen == 4
MaxRows == 2

Alphabet == {"-", "0", "1", ".", "X", "a", ","}

\* "[" inner "]" for every inner string of at most MaxRawLen characters
RawStrings ==
    UNION {{<<"[">> \o x \o <<"]">> : x \in [1..n -> Alphabet]} : n \in 0..MaxRawLen}

FillRaws ==
    { <<"[", "]">>,
      <<"[", "-", "1", "]">>,
      <<"[", "-", "1", ",", "0", "]">>,
      <<"[", "-", "1", ",", "X", "]">>,
      <<"[", "-", "1", ",", "]">>,
      <<"[", "X", "X", "]">>,
      <<"[", "a", "]">> }

FillValues ==
    {NaN, PyInt(-1), PyInt(0), PyInt(3), PyStr(<<"X">>), PyStr(<<"-", "1">>)}

FillCols == <<Col("CAMEO_DEUG_2015"), Col("LNR")>>

FillTables ==
    Tables(FillCols, [{FillCols[i] : i \in DOMAIN FillCols} -> FillValues], MaxRows)

EmptyFrame == [cols |-> <<>>, rows |-> <<>>]

\* The summary names one column of the table and one the table lacks.
Summary(raw) ==
    << [attribute |-> "CAMEO_DEUG_2015", missing_or_unknown |-> raw],
       [attribute |-> "TITEL_KZ", missing_or_unknown |-> <<"[", "-", "1", ",", "0", "]">>] >>

InitNormalizer ==
    /\ pc = "split_codes"
    /\ \/ \E raw \in RawStrings :
             /\ feature_summary = Summary(raw)
             /\ df = DataFrame(FillCols,
                        <<[c \in {FillCols[i] : i \in DOMAIN FillCols} |-> PyInt(-1)]>>)
       \/ \E raw \in FillRaws :
             /\ feature_summary = Summary(raw)
             /\ df \in FillTables
    /\ df0 = df
    /\ missing_codes = <<>>
    /\ once = EmptyFrame
    /\ new_names = <<>>
    /\ missing_breakpoint = 0
    /\ median_imputer = <<>>

NextNormalizer == SplitCodes \/ FillMissing \/ FillAgain

SpecNormalizer == InitNormalizer /\ [][NextNormalizer]_vars

(***************************************************************************)
(* DataFrame operations used by enhanced_clean                             *)
(***************************************************************************)
HasCols(data, names) == \A i \in DOMAIN names : Col(names[i]) \in ColSet(data)

\* df.drop(columns=names)
drop(data, names) ==
    LET gone == {Col(names[i]) : i \in DOMAIN names}
        keep == SelectSeq(data.cols, LAMBDA c : c \notin gone)
    IN [cols |-> keep,
        rows |-> [i \in DOMAIN data.rows |->
            [data.rows[i] EXCEPT !.cells =
                [c \in {keep[j] : j \in DOMAIN keep} |-> data.rows[i].cells[c]]]]]

\* df.rename(columns=names): a label the table does not map passes through
renamed(names, c) ==
    IF c.lv = <<>> /\ \E i \in DOMAIN names : names[i].old = c.n
    THEN Col(names[CHOOSE i \in DOMAIN names : names[i].old = c.n].new)
    ELSE c

rename(data, names) ==
    LET cols == [j \in DOMAIN data.cols |-> renamed(names, data.cols[j])]
    IN [cols |-> cols,
        rows |-> [i \in DOMAIN data.rows |->
            [data.rows[i] EXCEPT !.cells =
                [c \in {cols[j] : j \in DOMAIN cols} |->
                    data.rows[i].cells[data.cols[CHOOSE j \in DOMAIN cols : cols[j] = c]]]]]]

\* df.isnull().sum(axis=1) for one row
null_count(row) == Cardinality({c \in DOMAIN row.cells : isnull(row.cells[c])})

\* df.loc[mask, :]: the rows the boolean mask holds for, in their order
RECURSIVE masked(_, _)
masked(rows, mask) ==
    IF rows = <<>> THEN <<>>
    ELSE (IF Head(mask) THEN <<Head(rows)>> ELSE <<>>) \o masked(Tail(rows), Tail(mask))

select_rows(data, mask) == [data EXCEPT !.rows = masked(data.rows, mask)]

\* df.dropna(subset=names)
dropna(data, names) ==
    select_rows(data,
        [r \in DOMAIN data.rows |->
            \A i \in DOMAIN names : ~isnull(data.rows[r].cells[Col(names[i])])])

\* df[name] = series, the series holding one value for each row
assign(data, name, series) ==
    LET cols == IF Col(name) \in ColSet(data) THEN data.cols
                ELSE Append(data.cols, Col(name))
    IN [cols |-> cols,
        rows |-> [i \in DOMAIN data.rows |->
            [data.rows[i] EXCEPT !.cells =
                [c \in {cols[j] : j \in DOMAIN cols} |->
                    IF c = Col(name) THEN series[i]
                    ELSE data.rows[i].cells[c]]]]]

(***************************************************************************)
(* pd.get_dummies(df, prefix_sep='__', drop_first=True, dummy_na=True,     *)
(*                columns=cat_cols)                                        *)
(***************************************************************************)
RECURSIVE Pow10(_)
Pow10(n) == IF n = 0 THEN 1 ELSE 10 * Pow10(n - 1)

NumLess(a, b) == a.m * Pow10(b.e) < b.m * Pow10(a.e)

\* the distinct non-missing values of a column
observed(data, name) ==
    {v \in {data.rows[i].cells[Col(name)] : i \in DOMAIN data.rows} : ~isnull(v)}

RECURSIVE Sorted(_)
Sorted(S) ==
    IF S = {} THEN <<>>
    ELSE LET lo == CHOOSE v \in S : \A w \in S : ~NumLess(w, v)
         IN <<lo>> \o Sorted(S \ {lo})

\* the category levels in sorted order, then the NaN level dummy_na adds
levels(data, name) == Append(Sorted(observed(data, name)), NaN)

\* drop_first removes the first level; a lone level leaves no column at all
dummy_levels(data, name) ==
    IF Len(levels(data, name)) = 1 THEN <<>> ELSE Tail(levels(data, name))

dummy_labels(data, name) ==
    [j \in DOMAIN dummy_levels(data, name) |->
        DummyCol(name, dummy_levels(data, name)[j])]

is_level(v, level) == IF isnull(level) THEN isnull(v) ELSE PyEq(v, level)

RECURSIVE Flatten(_)
Flatten(ss) == IF ss = <<>> THEN <<>> ELSE Head(ss) \o Flatten(Tail(ss))

get_dummies(data, columns) ==
    LET rest == drop(data, columns)
        added == Flatten([k \in DOMAIN columns |-> dummy_labels(data, columns[k])])
        cols == rest.cols \o added
    IN [cols |-> cols,
        rows |-> [i \in DOMAIN data.rows |->
            [data.rows[i] EXCEPT !.cells =
                [c \in {cols[j] : j \in DOMAIN cols} |->
                    IF c.lv = <<>> \/ c \in ColSet(rest)
                    THEN data.rows[i].cells[c]
                    ELSE IF is_level(data.rows[i].cells[Col(c.n)], c.lv[1])
                         THEN PyInt(1) ELSE PyInt(0)]]]]

(***************************************************************************)
(* data_mapper(series, mapping_dict) and the code maps                     *)
(***************************************************************************)
decade_code_map ==
    (1 :> PyInt(0)) @@ (2 :> PyInt(0)) @@ (3 :> PyInt(1)) @@ (4 :> PyInt(1)) @@
    (5 :> PyInt(2)) @@ (6 :> PyInt(2)) @@ (7 :> PyInt(2)) @@ (8 :> PyInt(3)) @@
    (9 :> PyInt(3)) @@ (10 :> PyInt(4)) @@ (11 :> PyInt(4)) @@ (12 :> PyInt(4)) @@
    (13 :> PyInt(4)) @@ (14 :> PyInt(5)) @@ (15 :> PyInt(5))

movement_code_map ==
    (1 :> PyInt(0)) @@ (2 :> PyInt(1)) @@ (3 :> PyInt(0)) @@ (4 :> PyInt(1)) @@
    (5 :> PyInt(0)) @@ (6 :> PyInt(1)) @@ (7 :> PyInt(1)) @@ (8 :> PyInt(0)) @@
    (9 :> PyInt(1)) @@ (10 :> PyInt(0)) @@ (11 :> PyInt(1)) @@ (12 :> PyInt(0)) @@
    (13 :> PyInt(1)) @@ (14 :> PyInt(0)) @@ (15 :> PyInt(1))

rural_code_map ==
    (0 :> NaN) @@ (1 :> PyInt(0)) @@ (2 :> PyInt(0)) @@ (3 :> PyInt(0)) @@
    (4 :> PyInt(0)) @@ (5 :> PyInt(0)) @@ (7 :> PyInt(1)) @@ (8 :> PyInt(2))

neighborhood_code_map ==
    (0 :> PyInt(0)) @@ (1 :> PyInt(1)) @@ (2 :> PyInt(2)) @@ (3 :> PyInt(3)) @@
    (4 :> PyInt(4)) @@ (5 :> PyInt(5)) @@ (7 :> PyInt(0)) @@ (8 :> PyInt(0))

biz_code_map ==
    (1 :> PyInt(0)) @@ (2 :> PyInt(0)) @@ (3 :> PyInt(0)) @@ (4 :> PyInt(0)) @@
    (5 :> PyInt(1))

age_bin_to_year ==
    (1 :> PyInt(2002)) @@ (2 :> PyInt(1979)) @@ (3 :> PyInt(1963)) @@
    (4 :> PyInt(1937))

IsKey(mapping_dict, v) == IsNumber(v) /\ v.e = 0 /\ v.m \in DOMAIN mapping_dict

\* series.map(mapping_dict, na_action='ignore') for one element: NaN is
\* passed over, a value that is no key of the dict becomes NaN.
data_mapper_zero_default(v, mapping_dict) ==
    IF isnull(v) THEN PyInt(0)
    ELSE IF IsKey(mapping_dict, v) THEN mapping_dict[v.m] ELSE PyInt(0)

data_mapper(v, mapping_dict) ==
    IF isnull(v) THEN v
    ELSE IF IsKey(mapping_dict, v) THEN mapping_dict[v.m] ELSE NaN

(***************************************************************************)
(* Casts and arithmetic of the life-stage digit split                      *)
(***************************************************************************)
\* int(x) of a float: the fraction is cut off, towards zero
TruncDiv(a, b) == IF a >= 0 THEN a \div b ELSE 0 - ((0 - a) \div b)

\* series.astype(int) for one element
can_cast_int(v) == IsNumber(v) \/ (v.t = "str" /\ IsIntLiteral(v.s))

cast_int(v) ==
    IF v.t = "str" THEN PyInt(IntOf(v.s)) ELSE PyInt(TruncDiv(v.m, Pow10(v.e)))

\* (series / 10).astype(int)
wealth_floor(v) == PyInt(v.m \div 10)

wealth(v) == PyInt(TruncDiv(v.m, 10))

\* series % 10
stage(v) == PyInt(v.m % 10)

(***************************************************************************)
(* Column lists of enhanced_clean, restricted to the columns of the        *)
(* modelled table (one or more representatives of each list)               *)
(***************************************************************************)
outlier_cols == <<"AGER_TYP", "TITEL_KZ">>

cat_cols_1 == <<"Shopper Type">>

cat_cols_2 == <<"Life Stage - HighRes">>

cat_cols_3 == <<"Bldg: Rural Type">>

low_missing_cols ==
    <<"Bldg: Number of HHs", "PLZ8: Primarily Business Bldgs", "Age Bin">>

median_cols == <<"Health Type", "Generation Movement", "Generation Decade">>

IntlCode == "RR4: Life Stage Type - Int'l Code Mapping"

(***************************************************************************)
(* The imputer collaborator and the birth-year fill                        *)
(***************************************************************************)
\* df['Age Bin'].map(age_bin_to_year) for one row
mapped_series(row) ==
    IF IsKey(age_bin_to_year, row.cells[Col("Age Bin")])
    THEN age_bin_to_year[row.cells[Col("Age Bin")].m] ELSE NaN

\* df['Birth Year'].fillna(mapped_series, inplace=True)
birth_year_unfilled(data) == data

birth_year_fill(data) ==
    assign(data, "Birth Year",
        [r \in DOMAIN data.rows |->
            IF isnull(data.rows[r].cells[Col("Birth Year")])
            THEN mapped_series(data.rows[r])
            ELSE data.rows[r].cells[Col("Birth Year")]])

\* median_imputer.transform(df[cols]) written back to df[cols]: statistics
\* holds the fitted median of each column of cols, in their order
impute_first_only(data, cols, statistics) ==
    [data EXCEPT !.rows = [i \in DOMAIN data.rows |->
        [data.rows[i] EXCEPT !.cells =
            [c \in DOMAIN data.rows[i].cells |->
                IF c = Col(cols[1]) /\ isnull(data.rows[i].cells[c])
                THEN statistics[1]
                ELSE data.rows[i].cells[c]]]]]

impute(data, cols, statistics) ==
    [data EXCEPT !.rows = [i \in DOMAIN data.rows |->
        [data.rows[i] EXCEPT !.cells =
            [c \in DOMAIN data.rows[i].cells |->
                IF (\E j \in DOMAIN cols : c = Col(cols[j]))
                   /\ isnull(data.rows[i].cells[c])
                THEN statistics[CHOOSE j \in DOMAIN cols : c = Col(cols[j])]
                ELSE data.rows[i].cells[c]]]]]

(***************************************************************************)
(* Steps of enhanced_clean after the Missing-Code Normalizer               *)
(***************************************************************************)
Rest == <<df0, feature_summary, missing_codes, once, new_names,
          missing_breakpoint, median_imputer>>

\* lines 124-125
DropColumns ==
    /\ pc = "drop_columns"
    /\ IF HasCols(df, outlier_cols)
       THEN df' = drop(df, outlier_cols) /\ pc' = "rename"
       ELSE df' = df /\ pc' = "KeyError"
    /\ UNCHANGED Rest

\* lines 130-133
Rename ==
    /\ pc = "rename"
    /\ df' = rename(df, new_names)
    /\ pc' = "row_filter"
    /\ UNCHANGED Rest

\* line 136: df.isnull().sum(axis=1) <= missing_breakpoint
keep_row_strict(row, breakpoint) == null_count(row) < breakpoint

keep_row(row, breakpoint) == null_count(row) <= breakpoint

RowFilter ==
    /\ pc = "row_filter"
    /\ df' = select_rows(df,
                [r \in DOMAIN df.rows |-> keep_row(df.rows[r], missing_breakpoint)])
    /\ pc' = "get_dummies_1"
    /\ UNCHANGED Rest

\* lines 156-159
GetDummies1 ==
    /\ pc = "get_dummies_1"
    /\ df' = get_dummies(df, cat_cols_1)
    /\ pc' = "generation_decade"
    /\ UNCHANGED Rest

\* lines 213-215
GenerationDecade ==
    /\ pc = "generation_decade"
    /\ df' = assign(df, "Generation Decade",
                [r \in DOMAIN df.rows |-> data_mapper(df.rows[r].cells[Col("Generation Designation")],
                                         decade_code_map)])
    /\ pc' = "generation_movement"
    /\ UNCHANGED Rest

\* lines 236-238
GenerationMovement ==
    /\ pc = "generation_movement"
    /\ df' = assign(df, "Generation Movement",
                [r \in DOMAIN df.rows |-> data_mapper(df.rows[r].cells[Col("Generation Designation")],
                                         movement_code_map)])
    /\ pc' = "drop_generation"
    /\ UNCHANGED Rest

\* line 242
DropGeneration ==
    /\ pc = "drop_generation"
    /\ df' = drop(df, <<"Generation Designation">>)
    /\ pc' = "dropna_intl"
    /\ UNCHANGED Rest

\* lines 245-246
DropnaIntl ==
    /\ pc = "dropna_intl"
    /\ df' = dropna(df, <<IntlCode>>)
    /\ pc' = "cast_intl"
    /\ UNCHANGED Rest

\* lines 249-250: astype(int) raises on an element int() cannot convert
CastIntl ==
    /\ pc = "cast_intl"
    /\ IF \A i \in DOMAIN df.rows : can_cast_int(df.rows[i].cells[Col(IntlCode)])
       THEN /\ df' = assign(df, IntlCode,
                        [r \in DOMAIN df.rows |-> cast_int(df.rows[r].cells[Col(IntlCode)])])
            /\ pc' = "wealth"
       ELSE df' = df /\ pc' = "ValueError"
    /\ UNCHANGED Rest

\* lines 253-255
Wealth ==
    /\ pc = "wealth"
    /\ df' = assign(df, "RR4: Life Stage Type - Int'l - Wealth",
                [r \in DOMAIN df.rows |-> wealth(df.rows[r].cells[Col(IntlCode)])])
    /\ pc' = "stage"
    /\ UNCHANGED Rest

\* lines 258-259
Stage ==
    /\ pc = "stage"
    /\ df' = assign(df, "RR4: Life Stage Type - Int'l - Stage",
                [r \in DOMAIN df.rows |-> stage(df.rows[r].cells[Col(IntlCode)])])
    /\ pc' = "drop_intl"
    /\ UNCHANGED Rest

\* lines 262-263
DropIntl ==
    /\ pc = "drop_intl"
    /\ df' = drop(df, <<IntlCode>>)
    /\ pc' = "get_dummies_2"
    /\ UNCHANGED Rest

\* lines 269-272
GetDummies2 ==
    /\ pc = "get_dummies_2"
    /\ df' = get_dummies(df, cat_cols_2)
    /\ pc' = "rural_type"
    /\ UNCHANGED Rest

\* lines 286-287
rural_type_rescored(row) ==
    data_mapper(data_mapper(row.cells[Col("Bldg: Neighborhood Quality")],
                            neighborhood_code_map), rural_code_map)

rural_type(row) ==
    data_mapper(row.cells[Col("Bldg: Neighborhood Quality")], rural_code_map)

RuralType ==
    /\ pc = "rural_type"
    /\ df' = assign(df, "Bldg: Rural Type",
                [r \in DOMAIN df.rows |-> rural_type(df.rows[r])])
    /\ pc' = "get_dummies_3"
    /\ UNCHANGED Rest

\* lines 292-296
GetDummies3 ==
    /\ pc = "get_dummies_3"
    /\ df' = get_dummies(df, cat_cols_3)
    /\ pc' = "neighborhood_quality"
    /\ UNCHANGED Rest

\* lines 310-312
NeighborhoodQuality ==
    /\ pc = "neighborhood_quality"
    /\ df' = assign(df, "Bldg: Neighborhood Quality",
                [r \in DOMAIN df.rows |-> data_mapper(df.rows[r].cells[Col("Bldg: Neighborhood Quality")],
                                         neighborhood_code_map)])
    /\ pc' = "primarily_business"
    /\ UNCHANGED Rest

\* lines 323-325
PrimarilyBusiness ==
    /\ pc = "primarily_business"
    /\ df' = assign(df, "PLZ8: Primarily Business Bldgs",
                [r \in DOMAIN df.rows |-> data_mapper(df.rows[r].cells[Col("PLZ8: Most Common Bldg Type")],
                                         biz_code_map)])
    /\ pc' = "drop_bldg_type"
    /\ UNCHANGED Rest

\* lines 328-329
DropBldgType ==
    /\ pc = "drop_bldg_type"
    /\ df' = drop(df, <<"PLZ8: Most Common Bldg Type">>)
    /\ pc' = "dropna_low"
    /\ UNCHANGED Rest

\* line 356
DropnaLow ==
    /\ pc = "dropna_low"
    /\ df' = dropna(df, low_missing_cols)
    /\ pc' = "birth_year"
    /\ UNCHANGED Rest

\* lines 378-382
BirthYear ==
    /\ pc = "birth_year"
    /\ df' = birth_year_fill(df)
    /\ pc' = "median_impute"
    /\ UNCHANGED Rest

\* lines 399-404: the imputer's input validation rejects a table of no rows
MedianImpute ==
    /\ pc = "median_impute"
    /\ IF df.rows = <<>>
       THEN df' = df /\ pc' = "ValueError"
       ELSE df' = impute(df, median_cols, median_imputer) /\ pc' = "return"
    /\ UNCHANGED Rest

NextClean ==
    \/ SplitCodes \/ FillMissing \/ DropColumns \/ Rename \/ RowFilter
    \/ GetDummies1 \/ GenerationDecade \/ GenerationMovement \/ DropGeneration
    \/ DropnaIntl \/ CastIntl \/ Wealth \/ Stage \/ DropIntl \/ GetDummies2
    \/ RuralType \/ GetDummies3 \/ NeighborhoodQuality \/ PrimarilyBusiness
    \/ DropBldgType \/ DropnaLow \/ BirthYear \/ MedianImpute

(***************************************************************************)
(* Inputs of enhanced_clean                                                *)
(***************************************************************************)
MaxBreakpoint == 2

\* the raw table's columns, in order
RawCols ==
    <<"AGER_TYP", "TITEL_KZ", "SHOPPER_TYP", "PRAEGENDE_JUGENDJAHRE", "CAMEO_INTL_2015", "LP_LEBENSPHASE_FEIN", "WOHNLAGE", "PLZ8_BAUMAX", "ALTERSKATEGORIE_GROB", "GEBURTSJAHR", "ANZ_HAUSHALTE_AKTIV", "HEALTH_TYP">>

\* the feature summary: one row per attribute, the codes as the bracketed
\* string the summary file holds; intl is the entry of CAMEO_INTL_2015
FeatureSummary(intl) ==
    << [attribute |-> "AGER_TYP", missing_or_unknown |-> <<"[", "-", "1", ",", "0", "]">>],
       [attribute |-> "TITEL_KZ", missing_or_unknown |-> <<"[", "-", "1", ",", "0", "]">>],
       [attribute |-> "SHOPPER_TYP", missing_or_unknown |-> <<"[", "-", "1", "]">>],
       [attribute |-> "PRAEGENDE_JUGENDJAHRE", missing_or_unknown |-> <<"[", "-", "1", ",", "0", "]">>],
       [attribute |-> "CAMEO_INTL_2015", missing_or_unknown |-> intl],
       [attribute |-> "LP_LEBENSPHASE_FEIN", missing_or_unknown |-> <<"[", "0", "]">>],
       [attribute |-> "WOHNLAGE", missing_or_unknown |-> <<"[", "-", "1", "]">>],
       [attribute |-> "PLZ8_BAUMAX", missing_or_unknown |-> <<"[", "-", "1", ",", "0", "]">>],
       [attribute |-> "ALTERSKATEGORIE_GROB", missing_or_unknown |-> <<"[", "-", "1", ",", "0", ",", "9", "]">>],
       [attribute |-> "GEBURTSJAHR", missing_or_unknown |-> <<"[", "0", "]">>],
       [attribute |-> "ANZ_HAUSHALTE_AKTIV", missing_or_unknown |-> <<"[", "0", "]">>],
       [attribute |-> "HEALTH_TYP", missing_or_unknown |-> <<"[", "-", "1", ",", "0", "]">>],
       [attribute |-> "KK_KUNDENTYP", missing_or_unknown |-> <<"[", "-", "1", "]">>] >>

IntlCodesRaw == <<"[", "-", "1", ",", "X", "X", "]">>

NoCodesRaw == <<"[", "]">>

\* col_renaming.csv: raw name -> readable name
ColRenaming ==
    << [old |-> "SHOPPER_TYP", new |-> "Shopper Type"],
       [old |-> "PRAEGENDE_JUGENDJAHRE", new |-> "Generation Designation"],
       [old |-> "CAMEO_INTL_2015", new |-> IntlCode],
       [old |-> "LP_LEBENSPHASE_FEIN", new |-> "Life Stage - HighRes"],
       [old |-> "WOHNLAGE", new |-> "Bldg: Neighborhood Quality"],
       [old |-> "PLZ8_BAUMAX", new |-> "PLZ8: Most Common Bldg Type"],
       [old |-> "ALTERSKATEGORIE_GROB", new |-> "Age Bin"],
       [old |-> "GEBURTSJAHR", new |-> "Birth Year"],
       [old |-> "ANZ_HAUSHALTE_AKTIV", new |-> "Bldg: Number of HHs"],
       [old |-> "HEALTH_TYP", new |-> "Health Type"] >>

\* a complete row: every column holds an ordinary code
BaseRow ==
    (Col("AGER_TYP") :> PyInt(1)) @@
    (Col("TITEL_KZ") :> PyInt(1)) @@
    (Col("SHOPPER_TYP") :> PyInt(1)) @@
    (Col("PRAEGENDE_JUGENDJAHRE") :> PyInt(7)) @@
    (Col("CAMEO_INTL_2015") :> PyInt(34)) @@
    (Col("LP_LEBENSPHASE_FEIN") :> PyInt(1)) @@
    (Col("WOHNLAGE") :> PyInt(3)) @@
    (Col("PLZ8_BAUMAX") :> PyInt(1)) @@
    (Col("ALTERSKATEGORIE_GROB") :> PyInt(1)) @@
    (Col("GEBURTSJAHR") :> PyInt(1980)) @@
    (Col("ANZ_HAUSHALTE_AKTIV") :> PyInt(1)) @@
    (Col("HEALTH_TYP") :> PyInt(3))

\* the rows that differ from BaseRow in the columns of DOMAIN choice only,
\* holding there any value of choice[column]
RowsVarying(choice) ==
    LET picks == {f \in [DOMAIN choice -> UNION {choice[k] : k \in DOMAIN choice}] :
                      \A k \in DOMAIN choice : f[k] \in choice[k]}
    IN {[c \in DOMAIN BaseRow |-> IF c.n \in DOMAIN choice THEN f[c.n] ELSE BaseRow[c]] :
            f \in picks}

RawColSeq == [i \in DOMAIN RawCols |-> Col(RawCols[i])]

\* the fitted medians of median_cols

Imputer1 == <<PyInt(2), PyInt(1), PyInt(4)>>

InitClean(rowset, n, summaries, breakpoints, imputers) ==
    /\ pc = "split_codes"
    /\ df \in Tables(RawColSeq, rowset, n)
    /\ df0 = df
    /\ feature_summary \in summaries
    /\ missing_codes = <<>>
    /\ once = EmptyFrame
    /\ new_names = ColRenaming
    /\ missing_breakpoint \in breakpoints
    /\ median_imputer \in imputers

\* Inputs for the Column/Row Pruner: sentinels and missing markers spread
\* over a dropped column, a nominal column and a kept column.
PrunerRows ==
    RowsVarying(("AGER_TYP" :> {PyInt(-1), PyInt(1)}) @@
                ("SHOPPER_TYP" :> {PyInt(-1), PyInt(1)}) @@
                ("HEALTH_TYP" :> {NaN, PyInt(3)}))

InitPruner ==
    InitClean(PrunerRows, MaxRows, {FeatureSummary(IntlCodesRaw)},
              (0 - 1)..MaxBreakpoint, {Imputer1})

SpecPruner == InitPruner /\ [][NextClean]_vars

\* Inputs for the derivations done through data_mapper: known codes,
\* sentinels and codes no code map knows, one person per table.
MaxMapperRows == 1

MapperRows ==
    RowsVarying(("PRAEGENDE_JUGENDJAHRE" :> {PyInt(-1), PyInt(7), PyInt(16)}) @@
                ("PLZ8_BAUMAX" :> {PyInt(0), PyInt(1), PyInt(5), PyInt(6)}) @@
                ("WOHNLAGE" :> {PyInt(-1), PyInt(0), PyInt(3), PyInt(6), PyInt(7)}))

InitMapper ==
    InitClean(MapperRows, MaxMapperRows, {FeatureSummary(IntlCodesRaw)},
              {MaxBreakpoint}, {Imputer1})

SpecMapper == InitMapper /\ [][NextClean]_vars

\* Inputs for the life-stage digit split: codes, the sentinels -1 and XX
\* with and without their entry in the feature summary, a code read as text.
LifeStageRows ==
    RowsVarying("CAMEO_INTL_2015" :>
        {NaN, PyInt(-1), PyInt(-15), PyInt(10), PyInt(23), PyInt(34),
         PyStr(<<"X", "X">>), PyStr(<<"3", "4">>)})

InitLifeStage ==
    InitClean(LifeStageRows, MaxRows,
              {FeatureSummary(IntlCodesRaw), FeatureSummary(NoCodesRaw)},
              {MaxBreakpoint}, {Imputer1})

SpecLifeStage == InitLifeStage /\ [][NextClean]_vars

\* Inputs for the encoder and the two rules on neighborhood quality
EncoderRows ==
    RowsVarying(("SHOPPER_TYP" :> {PyInt(-1), PyInt(1), PyInt(2)}) @@
                ("WOHNLAGE" :> {PyInt(0), PyInt(3), PyInt(7), PyInt(8)}))

InitEncoder ==
    InitClean(EncoderRows, MaxRows, {FeatureSummary(IntlCodesRaw)},
              {MaxBreakpoint}, {Imputer1})

SpecEncoder == InitEncoder /\ [][NextClean]_vars

\* Inputs for the two imputation tiers
ImputerRows ==
    RowsVarying(("ALTERSKATEGORIE_GROB" :> {PyInt(9), PyInt(1)}) @@
                ("ANZ_HAUSHALTE_AKTIV" :> {PyInt(0), PyInt(1)}) @@
                ("HEALTH_TYP" :> {PyInt(-1), PyInt(3)}) @@
                ("PRAEGENDE_JUGENDJAHRE" :> {PyInt(-1), PyInt(7)}))

InitImputer ==
    InitClean(ImputerRows, MaxRows, {FeatureSummary(IntlCodesRaw)},
              {MaxBreakpoint}, {Imputer1, <<PyInt(1), PyInt(0), PyInt(3)>>})

SpecImputer == InitImputer /\ [][NextClean]_vars

\* Inputs for the birth-year fill
BirthYearRows ==
    RowsVarying(("ALTERSKATEGORIE_GROB" :> {PyInt(9), PyInt(1), PyInt(4), PyInt(5)}) @@
                ("GEBURTSJAHR" :> {PyInt(0), PyInt(1980)}) @@
                ("ANZ_HAUSHALTE_AKTIV" :> {PyInt(0), PyInt(1)}))

InitBirthYear ==
    InitClean(BirthYearRows, MaxRows, {FeatureSummary(IntlCodesRaw)},
              {MaxBreakpoint}, {Imputer1})

SpecBirthYear == InitBirthYear /\ [][NextClean]_vars

(***************************************************************************)
(* Properties                                                              *)
(***************************************************************************)
\* the caller's table after sentinel normalization, readable once
\* feature_summary holds the token lists
Normalized == fill_missing(df0, feature_summary)

\* the normalized input row with index label id, under its raw column name
Input(id, raw) == Normalized.rows[id].cells[Col(raw)]

Ids(data) == {data.rows[i].id : i \in DOMAIN data.rows}

Cell(row, name) == row.cells[Col(name)]

Parsed == pc \notin {"split_codes", "fill_missing"}

EmptyTokens(tokens) == tokens = <<>> \/ (Len(tokens) = 1 /\ tokens[1] = <<>>)

\* C2: parse_missing_codes returns the no-op marker exactly when the token
\* sequence is empty or is one empty-string token; every other token
\* sequence, one mixing an empty token with real codes included, is
\* typecast to a list of codes.
C2_NoOpOnlyForEmptyList ==
    Parsed =>
        \A i \in DOMAIN missing_codes :
            (missing_codes[i].missing_or_unknown.k = "nan")
                <=> EmptyTokens(feature_summary[i].missing_or_unknown)

\* C3: parsing the missing codes never ends in an error: a token sequence
\* with no empty token whose tokens are all integer literals yields the
\* integers, and one with some token that is no integer literal yields, token
\* by token, the decimal when the token parses as one and the raw string
\* otherwise, whether or not the token holds an 'X'.
C3_ParsingNeverRaises ==
    Parsed =>
        \A i \in DOMAIN missing_codes :
            LET tokens == feature_summary[i].missing_or_unknown
                got == missing_codes[i].missing_or_unknown
            IN (\A j \in DOMAIN tokens : tokens[j] # <<>>) =>
                  /\ got.k = "list"
                  /\ Len(got.l) = Len(tokens)
                  /\ \A j \in DOMAIN tokens :
                        got.l[j] =
                            IF \A n \in DOMAIN tokens : IsIntLiteral(tokens[n])
                            THEN PyInt(IntOf(tokens[j]))
                            ELSE IF IsFloatLiteral(tokens[j])
                                 THEN FloatOf(tokens[j]) ELSE PyStr(tokens[j])

\* C6: fill_missing applied to its own result with the same code table
\* gives the same table again; a cell that was a missing marker stays one,
\* and both applications keep the columns and the rows, in number and order.
SameShape(a, b) ==
    /\ a.cols = b.cols
    /\ Len(a.rows) = Len(b.rows)
    /\ \A i \in DOMAIN a.rows : a.rows[i].id = b.rows[i].id

C6_FillMissingIdempotent ==
    pc = "filled_twice" =>
        /\ df = once
        /\ SameShape(once, df0)
        /\ SameShape(df, df0)
        /\ \A i \in DOMAIN df0.rows : \A c \in ColSet(df0) :
              isnull(df0.rows[i].cells[c]) =>
                  isnull(once.rows[i].cells[c]) /\ isnull(df.rows[i].cells[c])

C6_Witness ==
    /\ pc = "filled_twice"
    /\ \E i \in DOMAIN df0.rows : \E c, d \in ColSet(df0) :
          /\ ~isnull(df0.rows[i].cells[c])
          /\ isnull(once.rows[i].cells[c])
          /\ ~isnull(once.rows[i].cells[d])

\* the table the row filter reads: normalized, the outlier columns dropped,
\* the columns renamed
Pruned == rename(drop(Normalized, outlier_cols), new_names)

Missing(row) == {c \in DOMAIN row.cells : isnull(row.cells[c])}

\* C1: a row survives the row filter if and only if the number of missing
\* markers it holds, counted over the columns left after normalization, the
\* column drop and the rename, is at most missing_breakpoint; the rows that
\* survive are unchanged and keep their order.
C1_RowFilterKeepsUpToBreakpoint ==
    pc = "get_dummies_1" =>
        /\ \A i \in DOMAIN Pruned.rows :
              (Pruned.rows[i].id \in Ids(df))
                  <=> Cardinality(Missing(Pruned.rows[i])) <= missing_breakpoint
        /\ \A j \in DOMAIN df.rows : df.rows[j] = Pruned.rows[df.rows[j].id]
        /\ \A j, k \in DOMAIN df.rows : j < k => df.rows[j].id < df.rows[k].id

C1_Witness ==
    /\ pc = "get_dummies_1"
    /\ missing_breakpoint = 1
    /\ \E i, j \in DOMAIN Pruned.rows :
          /\ Cardinality(Missing(Pruned.rows[i])) = missing_breakpoint
          /\ Pruned.rows[i].id \in Ids(df)
          /\ Cardinality(Missing(Pruned.rows[j])) = missing_breakpoint + 1
          /\ Pruned.rows[j].id \notin Ids(df)
          /\ isnull(Input(Pruned.rows[i].id, "AGER_TYP"))

\* the value a derivation must give: missing for a missing source, missing
\* for a source that is no key of the code map, the mapped code otherwise
Derived(source, target, code_map) ==
    /\ isnull(source) => isnull(target)
    /\ ~isnull(source) /\ ~IsKey(code_map, source) => isnull(target)
    /\ IsKey(code_map, source) => target = code_map[source.m]

\* C7: every derivation done through data_mapper gives a missing target for
\* a missing source and for a source code the rule's code map does not hold,
\* never 0, and the mapped code for a known key: generation designation 7
\* gives decade 2 and movement 1, building type 5 gives primarily-business
\* 1 and the types 1 to 4 give 0.
C7_DerivationsPropagateMissing ==
    /\ pc = "drop_generation" =>
          \A i \in DOMAIN df.rows :
              LET r == df.rows[i] IN
              /\ Derived(Cell(r, "Generation Designation"),
                         Cell(r, "Generation Decade"), decade_code_map)
              /\ Derived(Cell(r, "Generation Designation"),
                         Cell(r, "Generation Movement"), movement_code_map)
              /\ Cell(r, "Generation Designation") = PyInt(7) =>
                    /\ Cell(r, "Generation Decade") = PyInt(2)
                    /\ Cell(r, "Generation Movement") = PyInt(1)
    /\ pc = "get_dummies_3" =>
          \A i \in DOMAIN df.rows :
              Derived(Cell(df.rows[i], "Bldg: Neighborhood Quality"),
                      Cell(df.rows[i], "Bldg: Rural Type"), rural_code_map)
    /\ pc = "primarily_business" =>
          \A i \in DOMAIN df.rows :
              Derived(Input(df.rows[i].id, "WOHNLAGE"),
                      Cell(df.rows[i], "Bldg: Neighborhood Quality"),
                      neighborhood_code_map)
    /\ pc = "drop_bldg_type" =>
          \A i \in DOMAIN df.rows :
              LET r == df.rows[i] IN
              /\ Derived(Cell(r, "PLZ8: Most Common Bldg Type"),
                         Cell(r, "PLZ8: Primarily Business Bldgs"), biz_code_map)
              /\ Cell(r, "PLZ8: Most Common Bldg Type") = PyInt(5) =>
                    Cell(r, "PLZ8: Primarily Business Bldgs") = PyInt(1)
              /\ Cell(r, "PLZ8: Most Common Bldg Type") \in {PyInt(n) : n \in 1..4} =>
                    Cell(r, "PLZ8: Primarily Business Bldgs") = PyInt(0)

C7_Witness ==
    /\ pc = "drop_bldg_type"
    /\ \E i \in DOMAIN df.rows :
          LET r == df.rows[i] IN
          /\ Cell(r, "PLZ8: Most Common Bldg Type") = PyInt(6)
          /\ isnull(Cell(r, "PLZ8: Primarily Business Bldgs"))
          /\ isnull(Input(r.id, "PRAEGENDE_JUGENDJAHRE"))
          /\ isnull(Cell(r, "Generation Decade"))
          /\ isnull(Cell(r, "Generation Movement"))

WealthCol == "RR4: Life Stage Type - Int'l - Wealth"
StageCol == "RR4: Life Stage Type - Int'l - Stage"

\* the digit split with the tens digit either floored (c \div 10) or cut
\* off towards zero: the rows with a missing code are gone before the cast,
\* the ones digit is the code modulo 10, the source column leaves the table
LifeStageSplit(floored) ==
    /\ pc = "cast_intl" =>
          /\ \A i \in DOMAIN df.rows : ~isnull(Cell(df.rows[i], IntlCode))
          /\ \A id \in Ids(df0) :
                id \in Ids(df) <=>
                    /\ Cardinality(Missing(Pruned.rows[id])) <= missing_breakpoint
                    /\ ~isnull(Input(id, "CAMEO_INTL_2015"))
    /\ pc = "drop_intl" =>
          \A i \in DOMAIN df.rows :
              LET c == Cell(df.rows[i], IntlCode).m IN
              /\ Cell(df.rows[i], IntlCode) = PyInt(c)
              /\ Cell(df.rows[i], WealthCol) =
                    PyInt(IF floored \/ c >= 0 \/ c % 10 = 0
                          THEN c \div 10 ELSE (c \div 10) + 1)
              /\ Cell(df.rows[i], StageCol) = PyInt(c % 10)
              /\ c = 34 => Cell(df.rows[i], WealthCol) = PyInt(3)
                           /\ Cell(df.rows[i], StageCol) = PyInt(4)
              /\ c = 10 => Cell(df.rows[i], WealthCol) = PyInt(1)
                           /\ Cell(df.rows[i], StageCol) = PyInt(0)
              /\ c = 23 => Cell(df.rows[i], WealthCol) = PyInt(2)
                           /\ Cell(df.rows[i], StageCol) = PyInt(3)
    /\ pc = "get_dummies_2" => Col(IntlCode) \notin ColSet(df)

\* C8 as claimed: every row with a missing international life-stage code is
\* dropped before the integer cast, and every remaining row with integer
\* code c gets wealth = floor(c / 10) and stage = c mod 10; the source
\* column is absent afterwards.
C8_WealthIsFloor == LifeStageSplit(TRUE)

\* C8 as amended: the same, with wealth = c / 10 cut off towards zero,
\* which is floor(c / 10) for every c >= 0 and floor(c / 10) + 1 for a
\* negative c that is no multiple of 10.
C8_WealthIsTruncated == LifeStageSplit(FALSE)

C8_Witness ==
    /\ pc = "drop_intl"
    /\ \E i \in DOMAIN df.rows :
          /\ Cell(df.rows[i], IntlCode) = PyInt(23)
          /\ Cell(df.rows[i], WealthCol) = PyInt(2)
          /\ Cell(df.rows[i], StageCol) = PyInt(3)
    /\ \E id \in Ids(df0) : id \notin Ids(df) /\ isnull(df0.rows[id].cells[Col("CAMEO_INTL_2015")])

LowComplete(data) ==
    \A i \in DOMAIN data.rows : \A j \in DOMAIN low_missing_cols :
        ~isnull(Cell(data.rows[i], low_missing_cols[j]))

Group(data, name) == {c \in ColSet(data) : c.n = name /\ c.lv # <<>>}

\* the rural type the original neighborhood-quality code stands for
RuralOf(code) ==
    IF code = PyInt(0) THEN NaN
    ELSE IF code \in {PyInt(n) : n \in 1..5} THEN PyInt(0)
    ELSE IF code = PyInt(7) THEN PyInt(1)
    ELSE IF code = PyInt(8) THEN PyInt(2)
    ELSE NaN

RescoredOf(code) ==
    IF code \in {PyInt(0), PyInt(7), PyInt(8)} THEN PyInt(0)
    ELSE IF code \in {PyInt(n) : n \in 1..5} THEN code
    ELSE NaN

\* C10: the rural type is extracted from the original neighborhood-quality
\* codes (0: missing, 1-5: 0, 7: 1, 8: 2) and only afterwards is the
\* neighborhood-quality column re-scored in place (0, 7, 8: 0, 1-5
\* unchanged): a row's rural type, and the rural-type dummies made of it,
\* follow its code before the re-scoring, so original code 7 ends with
\* rural type 1 and quality 0, and original code 8 with rural type 2 and
\* quality 0.
C10_RuralTypeReadsOriginalCodes ==
    /\ pc = "get_dummies_3" =>
          \A i \in DOMAIN df.rows :
              /\ Cell(df.rows[i], "Bldg: Neighborhood Quality")
                    = Input(df.rows[i].id, "WOHNLAGE")
              /\ Cell(df.rows[i], "Bldg: Rural Type")
                    = RuralOf(Input(df.rows[i].id, "WOHNLAGE"))
    /\ pc = "neighborhood_quality" =>
          \A i \in DOMAIN df.rows :
              Cell(df.rows[i], "Bldg: Neighborhood Quality")
                  = Input(df.rows[i].id, "WOHNLAGE")
    /\ pc \in {"primarily_business", "drop_bldg_type", "dropna_low", "birth_year",
               "median_impute", "return"} =>
          \A i \in DOMAIN df.rows :
              /\ Cell(df.rows[i], "Bldg: Neighborhood Quality")
                    = RescoredOf(Input(df.rows[i].id, "WOHNLAGE"))
              /\ \A c \in Group(df, "Bldg: Rural Type") :
                    df.rows[i].cells[c] =
                        IF is_level(RuralOf(Input(df.rows[i].id, "WOHNLAGE")), c.lv[1])
                        THEN PyInt(1) ELSE PyInt(0)

C10_Witness ==
    /\ pc = "return"
    /\ \E i, j \in DOMAIN df.rows :
          /\ Input(df.rows[i].id, "WOHNLAGE") = PyInt(7)
          /\ Cell(df.rows[i], "Bldg: Neighborhood Quality") = PyInt(0)
          /\ DummyCol("Bldg: Rural Type", PyInt(1)) \in ColSet(df)
          /\ df.rows[i].cells[DummyCol("Bldg: Rural Type", PyInt(1))] = PyInt(1)
          /\ Input(df.rows[j].id, "WOHNLAGE") = PyInt(3)
          /\ df.rows[j].cells[DummyCol("Bldg: Rural Type", PyInt(1))] = PyInt(0)

\* C4: in the table enhanced_clean returns no cell of a low-missingness
\* column and no cell of a median-imputed column is a missing marker: every
\* row with a missing value in a low-missingness column has been dropped,
\* every missing value of a median-imputed column has been replaced by the
\* imputer's median of that column, and the values that were not missing
\* are unchanged.
C4_CoveredColumnsComplete ==
    pc = "return" =>
        /\ LowComplete(df)
        /\ \A i \in DOMAIN df.rows : \A j \in DOMAIN median_cols :
              ~isnull(Cell(df.rows[i], median_cols[j]))
        /\ \A id \in Ids(df0) :
              (isnull(Input(id, "ANZ_HAUSHALTE_AKTIV")) \/ isnull(Input(id, "ALTERSKATEGORIE_GROB"))
               \/ ~IsKey(biz_code_map, Input(id, "PLZ8_BAUMAX")))
                  => id \notin Ids(df)
        /\ \A i \in DOMAIN df.rows :
              LET r == df.rows[i]
                  gen == Input(r.id, "PRAEGENDE_JUGENDJAHRE")
              IN
              /\ Cell(r, "Health Type") =
                    IF isnull(Input(r.id, "HEALTH_TYP")) THEN median_imputer[1]
                    ELSE Input(r.id, "HEALTH_TYP")
              /\ Cell(r, "Generation Movement") =
                    IF IsKey(movement_code_map, gen) THEN movement_code_map[gen.m]
                    ELSE median_imputer[2]
              /\ Cell(r, "Generation Decade") =
                    IF IsKey(decade_code_map, gen) THEN decade_code_map[gen.m]
                    ELSE median_imputer[3]

C4_Witness ==
    /\ pc = "return"
    /\ \E i \in DOMAIN df.rows :
          /\ isnull(Input(df.rows[i].id, "HEALTH_TYP"))
          /\ isnull(Input(df.rows[i].id, "PRAEGENDE_JUGENDJAHRE"))
          /\ Cell(df.rows[i], "Health Type") = median_imputer[1]
          /\ Cell(df.rows[i], "Generation Decade") = median_imputer[3]
    /\ \E id \in Ids(df0) :
          /\ id \notin Ids(df)
          /\ Cardinality(Missing(Pruned.rows[id])) <= missing_breakpoint
          /\ isnull(Input(id, "ALTERSKATEGORIE_GROB"))

\* C5 for one invocation on a table that holds a row: source[i] is the
\* value the encoded column held in row i when get_dummies ran
OneHotComplete(name, source) ==
    LET seen == {v \in {source[i] : i \in DOMAIN df.rows} : ~isnull(v)}
        first == CHOOSE v \in seen : \A w \in seen : ~NumLess(w, v)
        k == Cardinality(seen)
    IN df.rows # <<>> =>
       /\ Cardinality(Group(df, name)) = k
       /\ DummyCol(name, NaN) \in ColSet(df)
       /\ Group(df, name) = {DummyCol(name, v) : v \in (seen \ {first}) \cup {NaN}}
       /\ \A i \in DOMAIN df.rows :
             LET ones == {c \in Group(df, name) : df.rows[i].cells[c] = PyInt(1)}
             IN /\ Cardinality(ones) <= 1
                /\ \A c \in Group(df, name) : df.rows[i].cells[c] \in {PyInt(0), PyInt(1)}
                /\ ones = {} <=> (seen # {} /\ source[i] = first)
                /\ isnull(source[i]) => ones = {DummyCol(name, NaN)}

\* C5: each get_dummies invocation turns an encoded column with k observed
\* distinct non-missing values into exactly k dummy columns {column}__{value}:
\* the k-1 levels after the first and an always-present {column}__nan; every
\* row has at most one dummy of the group set, none exactly when its source
\* value was the dropped first level, and exactly the __nan dummy when its
\* source value was missing.
C5_OneHotComplete ==
    /\ pc = "generation_decade" =>
          OneHotComplete("Shopper Type",
              [i \in DOMAIN df.rows |-> Input(df.rows[i].id, "SHOPPER_TYP")])
    /\ pc = "rural_type" =>
          OneHotComplete("Life Stage - HighRes",
              [i \in DOMAIN df.rows |-> Input(df.rows[i].id, "LP_LEBENSPHASE_FEIN")])
    /\ pc = "neighborhood_quality" =>
          OneHotComplete("Bldg: Rural Type",
              [i \in DOMAIN df.rows |-> RuralOf(Input(df.rows[i].id, "WOHNLAGE"))])

====
